---------------------------- MODULE Spec2Model ----------------------------
(***************************************************************************)
(* A model of the two MCP demo servers of this repository:                 *)
(*   src/echo_server.py        tool echo                                   *)
(*   src/remote_mcp_server.py  tools calculate and fetch_webpage, resource *)
(*                             weather://{city}, prompt analyze_text       *)
(*                                                                         *)
(* Strings are sequences of symbols.  A symbol is one character, or one    *)
(* literal fragment of the source (a message such as "Error: ").  An       *)
(* expression handed to calculate is the sequence of tokens Python's       *)
(* tokenizer makes of it.                                                  *)
(***************************************************************************)
EXTENDS Integers, Sequences, FiniteSets

(***************************************************************************)
(* Bounds of the model.                                                    *)
(***************************************************************************)
\* Longest enumerated token sequence handed to calculate.
MaxLen == 4
\* Invocations in flight at once.
MaxInv == 2
\* Largest magnitude of an integer mantissa the model represents.
MaxMagnitude == 1000000
\* Characters of a response body past the truncation limit.
MaxExtra == 2

Min(a, b) == IF a <= b THEN a ELSE b
Max(a, b) == IF a >= b THEN a ELSE b
Abs(a) == IF a < 0 THEN -a ELSE a

(***************************************************************************)
(* Tokens of an expression.                                                *)
(***************************************************************************)
Num(n) == [k |-> "num", s |-> "", n |-> n]
Op(s) == [k |-> "op", s |-> s, n |-> 0]
Name(s) == [k |-> "name", s |-> s, n |-> 0]
Str(s) == [k |-> "str", s |-> s, n |-> 0]
Kw(s) == [k |-> "kw", s |-> s, n |-> 0]
EOFTok == [k |-> "eof", s |-> "", n |-> 0]

Tok(toks, p) == IF p >= 1 /\ p <= Len(toks) THEN toks[p] ELSE EOFTok
IsOp(t, s) == t.k = "op" /\ t.s = s
IsOpIn(t, S) == t.k = "op" /\ t.s \in S

(***************************************************************************)
(* The parser of eval(): Python's expression grammar over the modelled     *)
(* vocabulary (numbers, strings, names, + - * / % **, parentheses, comma,  *)
(* dot, and keywords, which no expression may hold).                       *)
(*   eval_input: exprlist EOF                                              *)
(*   arith:   term (('+'|'-') term)*                                       *)
(*   term:    factor (('*'|'/'|'%') factor)*                               *)
(*   factor:  ('+'|'-') factor | power                                     *)
(*   power:   primary ['**' factor]                                        *)
(*   primary: atom ( '(' [args] ')' | '.' NAME )*                          *)
(*   atom:    NUMBER | STRING+ | NAME | '(' [elements] ')'                 *)
(* A parse is [ok, node, pos]: pos is the first token not consumed.        *)
(***************************************************************************)
NoNode == [tag |-> "None"]
ParseFail == [ok |-> FALSE, node |-> NoNode, pos |-> 0]
Parsed(n, p) == [ok |-> TRUE, node |-> n, pos |-> p]

RECURSIVE ParseArith(_, _), ParseArithRest(_, _, _), ParseTerm(_, _)
RECURSIVE ParseTermRest(_, _, _), ParseFactor(_, _), ParsePower(_, _)
RECURSIVE ParsePrimary(_, _), ParseTrailers(_, _, _), ParseAtom(_, _)
RECURSIVE ParseElements(_, _, _, _, _), ParseStrings(_, _, _)

\* One or more adjacent string literals make one string.
ParseStrings(toks, p, acc) ==
    IF Tok(toks, p).k = "str"
    THEN ParseStrings(toks, p + 1, Append(acc, Tok(toks, p).s))
    ELSE Parsed([tag |-> "Str", s |-> acc], p)

\* The elements of a display or of a call up to the closing parenthesis,
\* which is not consumed.  An element is [star, e]: star is 0 for a plain
\* expression, 1 for *e and 2 for **e (calls only).  The node of the
\* result is [elts, commas, kw]: kw says that a **e element was seen.
ParseElements(toks, p, acc, call, kw) ==
    LET t == Tok(toks, p)
        star == IF IsOp(t, "*") THEN 1 ELSE IF IsOp(t, "**") THEN 2 ELSE 0
        Element(r) ==
            IF ~r.ok THEN ParseFail
            ELSE LET el == [star |-> star, e |-> r.node]
                     n == Tok(toks, r.pos)
                 IN  IF IsOp(n, ",")
                     THEN ParseElements(toks, r.pos + 1, Append(acc, el), call,
                                        kw \/ star = 2)
                     ELSE IF IsOp(n, ")")
                     THEN Parsed([elts |-> Append(acc, el), commas |-> Len(acc),
                                  kw |-> kw \/ star = 2], r.pos)
                     ELSE ParseFail
    IN  IF IsOp(t, ")")
        THEN Parsed([elts |-> acc, commas |-> Len(acc), kw |-> kw], p)
        ELSE IF star = 2 /\ ~call THEN ParseFail
        ELSE IF star # 2 /\ kw THEN ParseFail
        ELSE Element(ParseArith(toks, IF star = 0 THEN p ELSE p + 1))

ParseAtom(toks, p) ==
    LET t == Tok(toks, p)
        Display(r) ==
            IF ~r.ok THEN ParseFail
            ELSE IF Len(r.node.elts) = 1 /\ r.node.commas = 0
            THEN \* a parenthesized expression; a lone starred one is none
                 IF r.node.elts[1].star # 0 THEN ParseFail
                 ELSE Parsed(r.node.elts[1].e, r.pos + 1)
            ELSE Parsed([tag |-> "Tuple", elts |-> r.node.elts], r.pos + 1)
    IN  CASE t.k = "num" -> Parsed([tag |-> "Num", n |-> t.n], p + 1)
          [] t.k = "name" -> Parsed([tag |-> "Name", id |-> t.s], p + 1)
          [] t.k = "str" -> ParseStrings(toks, p, <<>>)
          [] IsOp(t, "(") ->
                Display(ParseElements(toks, p + 1, <<>>, FALSE, FALSE))
          [] OTHER -> ParseFail

ParseTrailers(toks, node, p) ==
    LET t == Tok(toks, p)
        Call(r) ==
            IF ~r.ok THEN ParseFail
            ELSE ParseTrailers(toks,
                    [tag |-> "Call", f |-> node, args |-> r.node.elts],
                    r.pos + 1)
    IN  IF IsOp(t, "(")
        THEN Call(ParseElements(toks, p + 1, <<>>, TRUE, FALSE))
        ELSE IF IsOp(t, ".")
        THEN IF Tok(toks, p + 1).k = "name"
             THEN ParseTrailers(toks,
                    [tag |-> "Attr", x |-> node, attr |-> Tok(toks, p + 1).s],
                    p + 2)
             ELSE ParseFail
        ELSE Parsed(node, p)

ParsePrimary(toks, p) ==
    LET Trailers(a) ==
            IF a.ok THEN ParseTrailers(toks, a.node, a.pos) ELSE ParseFail
    IN  Trailers(ParseAtom(toks, p))

\* ** binds tighter than a unary operator on its left and looser than one
\* on its right: -2**2 is -(2**2), 2**-1 is 2**(-1); it associates right.
ParsePower(toks, p) ==
    LET Exponent(b, e) ==
            IF ~e.ok THEN ParseFail
            ELSE Parsed([tag |-> "Bin", op |-> "**", l |-> b.node,
                         r |-> e.node], e.pos)
        Base(b) ==
            IF ~b.ok THEN ParseFail
            ELSE IF IsOp(Tok(toks, b.pos), "**")
            THEN Exponent(b, ParseFactor(toks, b.pos + 1))
            ELSE b
    IN  Base(ParsePrimary(toks, p))

ParseFactor(toks, p) ==
    LET t == Tok(toks, p)
        Operand(x) ==
            IF ~x.ok THEN ParseFail
            ELSE Parsed([tag |-> "Unary", op |-> t.s, x |-> x.node], x.pos)
    IN  IF IsOpIn(t, {"+", "-"})
        THEN Operand(ParseFactor(toks, p + 1))
        ELSE ParsePower(toks, p)

ParseTermRest(toks, left, p) ==
    LET t == Tok(toks, p)
        Right(r) ==
            IF ~r.ok THEN ParseFail
            ELSE ParseTermRest(toks,
                    [tag |-> "Bin", op |-> t.s, l |-> left, r |-> r.node],
                    r.pos)
    IN  IF IsOpIn(t, {"*", "/", "%"})
        THEN Right(ParseFactor(toks, p + 1))
        ELSE Parsed(left, p)

ParseTerm(toks, p) ==
    LET Rest(f) ==
            IF f.ok THEN ParseTermRest(toks, f.node, f.pos) ELSE ParseFail
    IN  Rest(ParseFactor(toks, p))

ParseArithRest(toks, left, p) ==
    LET t == Tok(toks, p)
        Right(r) ==
            IF ~r.ok THEN ParseFail
            ELSE ParseArithRest(toks,
                    [tag |-> "Bin", op |-> t.s, l |-> left, r |-> r.node],
                    r.pos)
    IN  IF IsOpIn(t, {"+", "-"})
        THEN Right(ParseTerm(toks, p + 1))
        ELSE Parsed(left, p)

ParseArith(toks, p) ==
    LET Rest(t) ==
            IF t.ok THEN ParseArithRest(toks, t.node, t.pos) ELSE ParseFail
    IN  Rest(ParseTerm(toks, p))

RECURSIVE ParseTopList(_, _, _)
\* eval_input: e1, e2, ... with an optional trailing comma; a comma makes
\* a tuple.  No starred element at the top level.
ParseTopList(toks, p, acc) ==
    LET Element(r) ==
            IF ~r.ok THEN ParseFail
            ELSE LET el == [star |-> 0, e |-> r.node]
                 IN  IF IsOp(Tok(toks, r.pos), ",")
                     THEN IF r.pos + 1 > Len(toks)
                          THEN Parsed([tag |-> "Tuple", elts |-> Append(acc, el)],
                                      r.pos + 1)
                          ELSE ParseTopList(toks, r.pos + 1, Append(acc, el))
                     ELSE IF acc = <<>> THEN r
                     ELSE Parsed([tag |-> "Tuple", elts |-> Append(acc, el)],
                                 r.pos)
    IN  Element(ParseArith(toks, p))

\* compile(expression, "<string>", "eval"): the tree, or a SyntaxError.
ParseEval(toks) ==
    LET Whole(r) == IF r.ok /\ r.pos = Len(toks) + 1 THEN r ELSE ParseFail
    IN  Whole(ParseTopList(toks, 1, <<>>))


(***************************************************************************)
(* Values of the evaluation.                                               *)
(*   int      n * 10^e, the mantissa n as large as MaxMagnitude allows     *)
(*   float    num / den in lowest terms, neg its sign bit (-0.0 exists)    *)
(*   tuple, str, type, builtin (a built-in function), module,              *)
(*   quitter (site's exit object), calliter (iter(callable, sentinel))     *)
(* A float is represented when it is a binary fraction the model's         *)
(* integers hold: those are exact in IEEE 754 double arithmetic.           *)
(***************************************************************************)
RECURSIVE Strip10(_, _), Grow10(_, _)
\* The smallest mantissa: n * 10^e with n not divisible by 10.
Strip10(n, e) ==
    IF n # 0 /\ n % 10 = 0 THEN Strip10(n \div 10, e + 1) ELSE <<n, e>>
\* The largest mantissa within MaxMagnitude.
Grow10(n, e) ==
    IF e > 0 /\ Abs(n) <= MaxMagnitude \div 10
    THEN Grow10(n * 10, e - 1) ELSE <<n, e>>

MkInt(n, e) ==
    IF n = 0 THEN [t |-> "int", n |-> 0, e |-> 0]
    ELSE LET s == Strip10(n, e)
             g == Grow10(s[1], s[2])
         IN  [t |-> "int", n |-> g[1], e |-> g[2]]
PyInt(n) == MkInt(n, 0)

RECURSIVE Gcd(_, _)
Gcd(a, b) == IF b = 0 THEN a ELSE Gcd(b, a % b)

RECURSIVE IsPow2(_)
IsPow2(d) == d = 1 \/ (d > 1 /\ d % 2 = 0 /\ IsPow2(d \div 2))

\* num / den reduced; the sign bit follows the value except at zero.
MkFloat(num, den, negzero) ==
    LET g == Gcd(Abs(num), den)
    IN  [t |-> "float", num |-> num \div g, den |-> den \div g,
         neg |-> IF num = 0 THEN negzero ELSE num < 0]

MkTuple(items) == [t |-> "tuple", items |-> items]
MkStr(s) == [t |-> "str", s |-> s]
MkType(name) == [t |-> "type", name |-> name]
MkBuiltin(name) == [t |-> "builtin", name |-> name]
MkModule(name) == [t |-> "module", name |-> name]
Quitter == [t |-> "quitter", name |-> "exit"]
MkCallIter(fn, sentinel) == [t |-> "calliter", fn |-> fn, sentinel |-> sentinel]

IsNumber(v) == v.t \in {"int", "float"}
\* The product of two model integers stays a model integer.
MulOK(a, b) == a = 0 \/ Abs(b) <= MaxMagnitude \div Abs(a)

TypeName(v) ==
    CASE v.t = "builtin" -> "builtin_function_or_method"
      [] v.t = "quitter" -> "Quitter"
      [] v.t = "calliter" -> "callable_iterator"
      [] OTHER -> v.t

(***************************************************************************)
(* Outcomes of an evaluation: a value, a raised exception, an evaluation   *)
(* that never returns, the end of the process (os._exit), or "na": an      *)
(* evaluation the model does not represent.  No input of a specification   *)
(* evaluates to "na".                                                      *)
(***************************************************************************)
Val(v) == [o |-> "val", v |-> v]
Raise(cls, msg) == [o |-> "exc", cls |-> cls, msg |-> msg]
Hang == [o |-> "hang"]
Kill == [o |-> "kill"]
NA == [o |-> "na"]

\* The classes `except Exception` catches: every class but the direct
\* subclasses of BaseException.
IsException(cls) == cls \notin {"SystemExit", "KeyboardInterrupt", "GeneratorExit"}

(***************************************************************************)
(* str(): the text of a value.                                             *)
(***************************************************************************)
DigitSyms == <<"0", "1", "2", "3", "4", "5", "6", "7", "8", "9">>

RECURSIVE NatDigits(_)
\* The decimal digits of a natural number.
NatDigits(n) ==
    IF n < 10 THEN <<DigitSyms[n + 1]>>
    ELSE Append(NatDigits(n \div 10), DigitSyms[(n % 10) + 1])

Zeros(k) == [i \in 1..k |-> "0"]

\* sys.int_max_str_digits: str() of an int of more digits raises ValueError.
IntMaxStrDigits == 4300

IntDigitCount(v) == Len(NatDigits(Abs(v.n))) + v.e

IntText(v) ==
    (IF v.n < 0 THEN <<"-">> ELSE <<>>) \o NatDigits(Abs(v.n)) \o Zeros(v.e)

RECURSIVE FracDigits(_, _)
\* The decimal digits of r / den, 0 <= r < den, den a power of two.
FracDigits(r, den) ==
    IF r = 0 THEN <<>>
    ELSE <<DigitSyms[((r * 10) \div den) + 1]>> \o FracDigits((r * 10) % den, den)

\* repr() of a float gives its exact decimal expansion when that has at
\* most 15 significant digits and no exponent form is used.
FloatTextOK(v) ==
    /\ IsPow2(v.den)
    /\ MulOK(v.den, 10)
    /\ (v.num = 0 \/ Abs(v.num) * 10000 >= v.den)
    /\ Len(NatDigits(Abs(v.num) \div v.den)) + Len(FracDigits(Abs(v.num) % v.den, v.den)) <= 15

FloatText(v) ==
    LET a == Abs(v.num)
        f == FracDigits(a % v.den, v.den)
    IN  (IF v.neg THEN <<"-">> ELSE <<>>) \o NatDigits(a \div v.den) \o <<".">>
        \o (IF f = <<>> THEN <<"0">> ELSE f)

RECURSIVE TextOK(_), Text(_), JoinTexts(_)
\* Whether the model represents str(v) (an int always: see StrOf).
TextOK(v) ==
    CASE v.t = "float" -> FloatTextOK(v)
      [] v.t = "tuple" ->
            \A i \in 1..Len(v.items) :
                /\ v.items[i].t # "str"
                /\ TextOK(v.items[i])
                /\ (v.items[i].t = "int" => IntDigitCount(v.items[i]) <= IntMaxStrDigits)
      [] v.t = "module" -> v.name = "builtins"
      [] OTHER -> TRUE

JoinTexts(items) ==
    IF items = <<>> THEN <<>>
    ELSE IF Len(items) = 1 THEN Text(items[1])
    ELSE Text(items[1]) \o <<",", " ">> \o JoinTexts(Tail(items))

Text(v) ==
    CASE v.t = "int" -> IntText(v)
      [] v.t = "float" -> FloatText(v)
      [] v.t = "tuple" ->
            <<"(">> \o JoinTexts(v.items)
            \o (IF Len(v.items) = 1 THEN <<",">> ELSE <<>>) \o <<")">>
      [] v.t = "str" -> v.s
      [] v.t = "type" -> <<"<class '", v.name, "'>">>
      [] v.t = "builtin" -> <<"<built-in function ", v.name, ">">>
      [] v.t = "module" -> <<"<module '", v.name, "' (built-in)>">>
      [] v.t = "quitter" -> <<"Use exit() or Ctrl-D (i.e. EOF) to exit">>
      [] v.t = "calliter" -> <<"<callable_iterator object>">>

IntLimitMsg ==
    <<"Exceeds the limit (4300 digits) for integer string conversion; use sys.set_int_max_str_digits() to increase the limit">>

\* str(v) as an outcome: its value is the text.
StrOf(v) ==
    IF v.t = "int" /\ IntDigitCount(v) > IntMaxStrDigits
    THEN Raise("ValueError", IntLimitMsg)
    ELSE IF ~TextOK(v) THEN NA
    ELSE Val(Text(v))

(***************************************************************************)
(* Arithmetic of the evaluation: Python's binary and unary operators.      *)
(***************************************************************************)
Quote(name) == <<"'", name, "'">>

Unsupported(opname, a, b) ==
    Raise("TypeError", <<"unsupported operand type(s) for ", opname, ": ">>
                       \o Quote(TypeName(a)) \o <<" and ">> \o Quote(TypeName(b)))

\* x mod y with the sign of y (Python's %), y # 0.
FloorMod(x, y) == IF y > 0 THEN x % y ELSE -((-x) % (-y))

ToFloat(v) == IF v.t = "float" THEN v ELSE MkFloat(v.n, 1, FALSE)
\* A number the float operators take: an int's exponent form has no float.
Floatable(v) == v.t = "float" \/ (v.t = "int" /\ v.e = 0)

FNeg(a) == [a EXCEPT !.num = -a.num, !.neg = ~a.neg]

FAdd(a, b) ==
    IF ~(MulOK(a.num, b.den) /\ MulOK(b.num, a.den) /\ MulOK(a.den, b.den)) THEN NA
    ELSE Val(MkFloat(a.num * b.den + b.num * a.den, a.den * b.den,
                     a.num = 0 /\ b.num = 0 /\ a.neg /\ b.neg))

FMul(a, b) ==
    IF ~(MulOK(a.num, b.num) /\ MulOK(a.den, b.den)) THEN NA
    ELSE Val(MkFloat(a.num * b.num, a.den * b.den, a.neg # b.neg))

\* a / b, b # 0: represented when the quotient is a binary fraction.
FDiv(a, b) ==
    IF ~(MulOK(a.num, b.den) /\ MulOK(a.den, b.num)) THEN NA
    ELSE LET q == MkFloat((IF b.num < 0 THEN -1 ELSE 1) * a.num * b.den,
                          a.den * Abs(b.num), a.neg # b.neg)
         IN  IF IsPow2(q.den) THEN Val(q) ELSE NA

\* a % b, b # 0: a zero result takes the sign of b.
FMod(a, b) ==
    IF ~(MulOK(a.num, b.den) /\ MulOK(b.num, a.den) /\ MulOK(a.den, b.den)) THEN NA
    ELSE Val(MkFloat(FloorMod(a.num * b.den, b.num * a.den), a.den * b.den, b.neg))

RECURSIVE NatPowAcc(_, _, _)
NatPowAcc(a, k, acc) ==
    IF k = 0 THEN <<TRUE, acc>>
    ELSE IF ~MulOK(acc, a) THEN <<FALSE, 0>>
    ELSE NatPowAcc(a, k - 1, acc * a)

\* a^k for k >= 0 as <<ok, value>>: ok is FALSE past MaxMagnitude.
NatPow(a, k) ==
    IF a \in {0, 1} THEN <<TRUE, IF k = 0 THEN 1 ELSE a>>
    ELSE IF a = -1 THEN <<TRUE, IF k % 2 = 0 THEN 1 ELSE -1>>
    ELSE NatPowAcc(a, k, 1)

ZeroToNegative ==
    Raise("ZeroDivisionError", <<"0.0 cannot be raised to a negative power">>)

\* a ** k for a float a and an integer k.
FPowInt(a, k) ==
    IF a.num = 0
    THEN IF k < 0 THEN ZeroToNegative
         ELSE IF k = 0 THEN Val(MkFloat(1, 1, FALSE))
         ELSE Val(MkFloat(0, 1, a.neg /\ k % 2 = 1))
    ELSE LET n == NatPow(a.num, Abs(k))
             d == NatPow(a.den, Abs(k))
         IN  IF ~(n[1] /\ d[1]) THEN NA
             ELSE IF k >= 0 THEN Val(MkFloat(n[2], d[2], FALSE))
             ELSE LET q == MkFloat((IF n[2] < 0 THEN -1 ELSE 1) * d[2], Abs(n[2]), FALSE)
                  IN  IF IsPow2(q.den) THEN Val(q) ELSE NA

\* int ** int with a non-negative exponent, exactly.
IntPow(a, b) ==
    IF b.e > 0
    THEN IF a.e = 0 /\ a.n \in {0, 1} THEN Val(a) ELSE NA
    ELSE LET s == Strip10(a.n, a.e)
             m == NatPow(s[1], b.n)
         IN  IF b.n = 0 THEN Val(PyInt(1))
             ELSE IF ~m[1] \/ ~MulOK(s[2], b.n) THEN NA
             ELSE Val(MkInt(m[2], s[2] * b.n))

IntAdd(a, b) ==
    IF a.n = 0 THEN Val(b)
    ELSE IF b.n = 0 THEN Val(a)
    ELSE IF a.e > 0 \/ b.e > 0 THEN NA
    ELSE LET s == Strip10(a.n + b.n, 0)
         IN  IF Abs(s[1]) <= MaxMagnitude THEN Val(MkInt(a.n + b.n, 0)) ELSE NA

IntNeg(a) == [a EXCEPT !.n = -a.n]

IntMul(a, b) ==
    LET s == Strip10(a.n, a.e)
        u == Strip10(b.n, b.e)
    IN  IF MulOK(s[1], u[1]) THEN Val(MkInt(s[1] * u[1], s[2] + u[2])) ELSE NA

\* The numeric operators on two numbers.
NumOp(op, a, b) ==
    IF a.t = "int" /\ b.t = "int" /\ op \in {"+", "-", "*"}
    THEN CASE op = "+" -> IntAdd(a, b)
           [] op = "-" -> IntAdd(a, IntNeg(b))
           [] op = "*" -> IntMul(a, b)
    ELSE IF a.t = "int" /\ b.t = "int" /\ op = "%"
    THEN IF b.n = 0 THEN Raise("ZeroDivisionError", <<"integer modulo by zero">>)
         ELSE IF a.e > 0 \/ b.e > 0 THEN NA
         ELSE Val(PyInt(FloorMod(a.n, b.n)))
    ELSE IF a.t = "int" /\ b.t = "int" /\ op = "**" /\ b.n >= 0
    THEN IntPow(a, b)
    ELSE IF a.t = "int" /\ b.t = "int" /\ op = "/" /\ b.n = 0
    THEN Raise("ZeroDivisionError", <<"division by zero">>)
    ELSE IF ~(Floatable(a) /\ Floatable(b)) THEN NA
    ELSE LET x == ToFloat(a)
             y == ToFloat(b)
         IN  CASE op = "+" -> FAdd(x, y)
               [] op = "-" -> FAdd(x, FNeg(y))
               [] op = "*" -> FMul(x, y)
               [] op = "/" ->
                    IF y.num = 0
                    THEN Raise("ZeroDivisionError", <<"float division by zero">>)
                    ELSE FDiv(x, y)
               [] op = "%" ->
                    IF y.num = 0 THEN Raise("ZeroDivisionError", <<"float modulo">>)
                    ELSE FMod(x, y)
               [] op = "**" ->
                    IF y.den = 1 THEN FPowInt(x, y.num) ELSE NA

RECURSIVE Repeat(_, _)
\* items repeated k times.
Repeat(items, k) == IF k <= 0 THEN <<>> ELSE items \o Repeat(items, k - 1)

NonIntMultiplier(v) ==
    Raise("TypeError", <<"can't multiply sequence by non-int of type ">>
                       \o Quote(TypeName(v)))

TupleTimes(tup, k) ==
    IF k.t # "int" THEN NonIntMultiplier(k)
    ELSE IF k.e > 0 THEN NA
    ELSE IF tup.items # <<>> /\ k.n > MaxLen THEN NA
    ELSE Val(MkTuple(Repeat(tup.items, k.n)))

OpName(op) == IF op = "**" THEN "** or pow()" ELSE op

\* a op b.
BinOp(op, a, b) ==
    IF a.t = "str" \/ b.t = "str" THEN NA
    ELSE IF IsNumber(a) /\ IsNumber(b) THEN NumOp(op, a, b)
    ELSE IF op = "+" /\ a.t = "tuple"
    THEN IF b.t = "tuple" THEN Val(MkTuple(a.items \o b.items))
         ELSE Raise("TypeError", <<"can only concatenate tuple (not \"",
                                   TypeName(b), "\") to tuple">>)
    ELSE IF op = "*" /\ a.t = "tuple" THEN TupleTimes(a, b)
    ELSE IF op = "*" /\ b.t = "tuple" THEN TupleTimes(b, a)
    ELSE Unsupported(OpName(op), a, b)

\* op a, for op one of + and -.
UnaryOp(op, a) ==
    IF a.t = "int" THEN Val(IF op = "-" THEN IntNeg(a) ELSE a)
    ELSE IF a.t = "float" THEN Val(IF op = "-" THEN FNeg(a) ELSE a)
    ELSE IF a.t = "str" THEN NA
    ELSE Raise("TypeError", <<"bad operand type for unary ", op, ": ">>
                            \o Quote(TypeName(a)))

(***************************************************************************)
(* The names eval() resolves: calculate passes {"__builtins__": {}} as the *)
(* globals, so only the five allowed names are bound.                      *)
(***************************************************************************)
allowed_names == {"abs", "max", "min", "round", "sum"}

LookupName(id) ==
    IF id \in allowed_names THEN Val(MkBuiltin(id))
    ELSE Raise("NameError", <<"name ">> \o Quote(id) \o <<" is not defined">>)

(***************************************************************************)
(* Attribute access.  Every object has __class__; a built-in function has  *)
(* __self__, the module that holds it; the builtins module holds           *)
(* __import__, iter, int and site's exit.  NoSuchAttr are names no         *)
(* modelled object has; any other attribute is not represented.            *)
(***************************************************************************)
NoSuchAttr == {"x"}

ClassName(v) == IF v.t = "quitter" THEN "_sitebuiltins.Quitter" ELSE TypeName(v)

GetAttr(v, attr) ==
    CASE attr = "__class__" -> Val(MkType(ClassName(v)))
      [] attr = "__self__" /\ v.t = "builtin" /\ v.name \in allowed_names \cup {"__import__", "iter"}
            -> Val(MkModule("builtins"))
      [] v.t = "module" /\ v.name = "builtins" /\ attr \in {"__import__", "iter"}
            -> Val(MkBuiltin(attr))
      [] v.t = "module" /\ v.name = "builtins" /\ attr = "int" -> Val(MkType("int"))
      [] v.t = "module" /\ v.name = "builtins" /\ attr = "exit" -> Val(Quitter)
      [] v.t = "module" /\ v.name = "os" /\ attr = "_exit" -> Val(MkBuiltin("_exit"))
      [] attr \in NoSuchAttr /\ v.t \notin {"module", "type"} ->
            Raise("AttributeError", Quote(TypeName(v)) \o <<" object has no attribute ">>
                                    \o Quote(attr))
      [] OTHER -> NA

(***************************************************************************)
(* Calls.                                                                  *)
(***************************************************************************)
NotIterable(v) ==
    Raise("TypeError", Quote(TypeName(v)) \o <<" object is not iterable">>)

\* x > y for two represented numbers.
NumGreater(x, y) ==
    LET a == ToFloat(x)
        b == ToFloat(y)
    IN  a.num * b.den > b.num * a.den
Comparable(x, y) ==
    /\ Floatable(x) /\ Floatable(y)
    /\ MulOK(ToFloat(x).num, ToFloat(y).den) /\ MulOK(ToFloat(y).num, ToFloat(x).den)

RECURSIVE Best(_, _, _)
\* max (or min): the first item no later item is greater (smaller) than.
Best(items, best, wantMax) ==
    IF items = <<>> THEN Val(best)
    ELSE IF ~Comparable(items[1], best) THEN NA
    ELSE Best(Tail(items),
              IF (wantMax /\ NumGreater(items[1], best))
                 \/ (~wantMax /\ NumGreater(best, items[1]))
              THEN items[1] ELSE best,
              wantMax)

CallMaxMin(name, args) ==
    IF args = <<>>
    THEN Raise("TypeError", <<name, " expected at least 1 argument, got 0">>)
    ELSE LET items == IF Len(args) = 1 THEN args[1].items ELSE args
         IN  IF Len(args) = 1 /\ args[1].t \in {"str", "calliter"} THEN NA
             ELSE IF Len(args) = 1 /\ args[1].t # "tuple" THEN NotIterable(args[1])
             ELSE IF items = <<>>
             THEN Raise("ValueError", <<name, "() arg is an empty sequence">>)
             ELSE IF \E i \in 1..Len(items) : ~IsNumber(items[i]) THEN NA
             ELSE Best(Tail(items), items[1], name = "max")

CallAbs(args) ==
    IF Len(args) # 1
    THEN Raise("TypeError", <<"abs() takes exactly one argument (">>
                            \o NatDigits(Len(args)) \o <<" given)">>)
    ELSE LET v == args[1]
         IN  CASE v.t = "int" -> Val([v EXCEPT !.n = Abs(v.n)])
               [] v.t = "float" -> Val([v EXCEPT !.num = Abs(v.num), !.neg = FALSE])
               [] v.t = "str" -> NA
               [] OTHER -> Raise("TypeError", <<"bad operand type for abs(): ">>
                                              \o Quote(TypeName(v)))

\* round(x) of a float: the nearest integer, a tie to the even one.
RoundHalfEven(v) ==
    LET fl == v.num \div v.den
        twice == 2 * (v.num - fl * v.den)
    IN  IF twice < v.den THEN fl
        ELSE IF twice > v.den THEN fl + 1
        ELSE IF fl % 2 = 0 THEN fl ELSE fl + 1

CallRound(args) ==
    IF args = <<>>
    THEN Raise("TypeError", <<"round() missing required argument 'number' (pos 1)">>)
    ELSE IF Len(args) > 2
    THEN Raise("TypeError", <<"round() takes at most 2 arguments (">>
                            \o NatDigits(Len(args)) \o <<" given)">>)
    ELSE IF Len(args) = 2 THEN NA
    ELSE LET v == args[1]
         IN  CASE v.t = "int" -> Val(v)
               [] v.t = "float" -> Val(PyInt(RoundHalfEven(v)))
               [] v.t = "tuple" ->
                    Raise("TypeError", <<"type tuple doesn't define __round__ method">>)
               [] OTHER -> NA

RECURSIVE SumItems(_, _)
\* sum: start + item1 + item2 + ..., left to right.
SumItems(items, acc) ==
    IF items = <<>> THEN Val(acc)
    ELSE LET r == BinOp("+", acc, items[1])
         IN  IF r.o = "val" THEN SumItems(Tail(items), r.v) ELSE r

\* int() returns 0: iter(int, s) ends at once when s is 0 and never else.
CallSum(args) ==
    IF args = <<>>
    THEN Raise("TypeError", <<"sum() takes at least 1 positional argument (0 given)">>)
    ELSE IF Len(args) > 2 THEN NA
    ELSE LET v == args[1]
         IN  CASE v.t = "tuple" ->
                    IF Len(args) = 2 THEN NA ELSE SumItems(v.items, PyInt(0))
               [] v.t = "calliter" ->
                    IF Len(args) = 1 /\ v.fn.t = "type" /\ v.fn.name = "int"
                       /\ v.sentinel.t = "int"
                    THEN IF v.sentinel.n = 0 THEN Val(PyInt(0)) ELSE Hang
                    ELSE NA
               [] v.t = "str" -> NA
               [] OTHER -> NotIterable(v)

\* f(args) for evaluated arguments.
CallPlain(f, args) ==
    CASE f.t = "builtin" /\ f.name = "abs" -> CallAbs(args)
      [] f.t = "builtin" /\ f.name \in {"max", "min"} -> CallMaxMin(f.name, args)
      [] f.t = "builtin" /\ f.name = "round" -> CallRound(args)
      [] f.t = "builtin" /\ f.name = "sum" -> CallSum(args)
      [] f.t = "builtin" /\ f.name = "__import__" ->
            IF Len(args) = 1 /\ args[1].t = "str" /\ args[1].s = <<"os">>
            THEN Val(MkModule("os")) ELSE NA
      [] f.t = "builtin" /\ f.name = "iter" ->
            IF Len(args) = 2 /\ args[1].t = "type" /\ args[1].name = "int"
            THEN Val(MkCallIter(args[1], args[2])) ELSE NA
      [] f.t = "builtin" /\ f.name = "_exit" ->
            IF Len(args) = 1 /\ args[1].t = "int" /\ args[1].e = 0 THEN Kill ELSE NA
      [] f.t = "quitter" ->
            IF args = <<>> THEN Raise("SystemExit", <<"None">>) ELSE NA
      [] f.t = "type" -> NA
      [] OTHER -> Raise("TypeError", Quote(TypeName(f)) \o <<" object is not callable">>)

\* A callable in a message: name() for a function or a class, else str().
FuncStr(f) ==
    IF f.t \in {"builtin", "type"} THEN Val(<<f.name, "()">>) ELSE StrOf(f)

\* A call with one starred argument v: v is unpacked.
CallStar(f, v) ==
    CASE v.t = "tuple" -> CallPlain(f, v.items)
      [] v.t \in {"str", "calliter"} -> NA
      [] OTHER ->
            LET s == FuncStr(f)
            IN  IF s.o # "val" THEN NA
                ELSE Raise("TypeError", s.v \o <<" argument after * must be an iterable, not ",
                                                 TypeName(v)>>)

\* A call with one double-starred argument v: no modelled value is a mapping.
CallStarStar(f, v) ==
    LET s == FuncStr(f)
    IN  IF s.o # "val" THEN NA
        ELSE Raise("TypeError", s.v \o <<" argument after ** must be a mapping, not ",
                                         TypeName(v)>>)

(***************************************************************************)
(* Evaluation of a parsed expression: operands left to right, the first    *)
(* outcome that is no value ends the evaluation.                           *)
(***************************************************************************)
RECURSIVE Eval(_), EvalElements(_, _)

\* The values of a display's elements; *e splices the items of e.
EvalElements(elts, acc) ==
    IF elts = <<>> THEN Val(acc)
    ELSE LET r == Eval(elts[1].e)
         IN  IF r.o # "val" THEN r
             ELSE IF elts[1].star = 0
             THEN EvalElements(Tail(elts), Append(acc, r.v))
             ELSE IF r.v.t = "tuple"
             THEN EvalElements(Tail(elts), acc \o r.v.items)
             ELSE IF r.v.t \in {"str", "calliter"} THEN NA
             ELSE Raise("TypeError", <<"Value after * must be an iterable, not ",
                                       TypeName(r.v)>>)

Eval(node) ==
    CASE node.tag = "Num" -> Val(PyInt(node.n))
      [] node.tag = "Str" -> Val(MkStr(node.s))
      [] node.tag = "Name" -> LookupName(node.id)
      [] node.tag = "Unary" ->
            LET x == Eval(node.x)
            IN  IF x.o = "val" THEN UnaryOp(node.op, x.v) ELSE x
      [] node.tag = "Bin" ->
            LET l == Eval(node.l)
                r == Eval(node.r)
            IN  IF l.o # "val" THEN l
                ELSE IF r.o # "val" THEN r
                ELSE BinOp(node.op, l.v, r.v)
      [] node.tag = "Tuple" ->
            LET r == EvalElements(node.elts, <<>>)
            IN  IF r.o = "val" THEN Val(MkTuple(r.v)) ELSE r
      [] node.tag = "Attr" ->
            LET x == Eval(node.x)
            IN  IF x.o = "val" THEN GetAttr(x.v, node.attr) ELSE x
      [] node.tag = "Call" ->
            LET f == Eval(node.f)
                starred == \E i \in 1..Len(node.args) : node.args[i].star # 0
                a == IF starred THEN Eval(node.args[1].e)
                     ELSE EvalElements(node.args, <<>>)
            IN  IF f.o # "val" THEN f
                ELSE IF starred /\ Len(node.args) > 1 THEN NA
                ELSE IF a.o # "val" THEN a
                ELSE IF ~starred THEN CallPlain(f.v, a.v)
                ELSE IF node.args[1].star = 1 THEN CallStar(f.v, a.v)
                ELSE CallStarStar(f.v, a.v)

\* str(e) of the SyntaxError compile() raises; its wording is the parser's.
SyntaxMsg == <<"invalid syntax (<string>, line 1)">>

\* eval(expression, {"__builtins__": {}}, allowed_names)
PyEval(expression) ==
    LET Compiled(p) ==
            IF p.ok THEN Eval(p.node) ELSE Raise("SyntaxError", SyntaxMsg)
    IN  Compiled(ParseEval(expression))

(***************************************************************************)
(* What a handler's run comes to: it returns a string, lets an exception   *)
(* propagate to its caller, never returns, or ends the process.            *)
(***************************************************************************)
Return(text) == [kind |-> "return", text |-> text, cls |-> ""]
Propagate(cls) == [kind |-> "raise", text |-> <<>>, cls |-> cls]
NeverReturns == [kind |-> "hang", text |-> <<>>, cls |-> ""]
ProcessExit == [kind |-> "kill", text |-> <<>>, cls |-> ""]
NotRepresented == [kind |-> "na", text |-> <<>>, cls |-> ""]
Unset == [kind |-> "none", text |-> <<>>, cls |-> ""]

\* `except Exception as e: return f"<prefix>{str(e)}"`
ExceptException(prefix, exc) ==
    IF IsException(exc.cls) THEN Return(<<prefix>> \o exc.msg)
    ELSE Propagate(exc.cls)

\* The tool calculate.
calculate(expression) ==
    LET Converted(s) ==
            CASE s.o = "val" -> Return(s.v)
              [] s.o = "exc" -> ExceptException("Error: ", s)
              [] OTHER -> NotRepresented
        Evaluated(r) ==
            CASE r.o = "val" -> Converted(StrOf(r.v))
              [] r.o = "exc" -> ExceptException("Error: ", r)
              [] r.o = "hang" -> NeverReturns
              [] r.o = "kill" -> ProcessExit
              [] OTHER -> NotRepresented
    IN  Evaluated(PyEval(expression))

(***************************************************************************)
(* The expressions handed to calculate: every token sequence of at most    *)
(* MaxLen tokens over Alphabet, and the expressions of Samples.            *)
(***************************************************************************)
Alphabet ==
    {Num(0), Num(1), Num(2)}
    \cup {Op(s) : s \in {"+", "-", "*", "/", "%", "**", "(", ")"}}

Enumerated == UNION {[1..n -> Alphabet] : n \in 0..MaxLen}

\* Expressions of interest beyond the enumeration.
\*   2 + 3 * 4
Precedence == <<Num(2), Op("+"), Num(3), Op("*"), Num(4)>>
\*   1 / 0
DivisionByZero == <<Num(1), Op("/"), Num(0)>>
\*   10 ** 4300
LongInt == <<Num(10), Op("**"), Num(4300)>>
\*   ().__class__
TupleClass == <<Op("("), Op(")"), Op("."), Name("__class__")>>
\*   abs.__self__.exit()
BuiltinsExit ==
    <<Name("abs"), Op("."), Name("__self__"), Op("."), Name("exit"), Op("("), Op(")")>>
\*   abs.__self__.__import__('os')._exit(0)
OsExit ==
    <<Name("abs"), Op("."), Name("__self__"), Op("."), Name("__import__"), Op("("),
      Str("os"), Op(")"), Op("."), Name("_exit"), Op("("), Num(0), Op(")")>>
\*   sum(abs.__self__.iter(abs.__self__.int, 1))
EndlessSum ==
    <<Name("sum"), Op("("), Name("abs"), Op("."), Name("__self__"), Op("."), Name("iter"),
      Op("("), Name("abs"), Op("."), Name("__self__"), Op("."), Name("int"), Op(","),
      Num(1), Op(")"), Op(")")>>

Samples ==
    { Precedence, DivisionByZero, LongInt, TupleClass, BuiltinsExit, OsExit, EndlessSum,
      <<Num(2), Op("*"), Num(3), Op("+"), Num(4)>>,
      <<Num(2), Op("-"), Num(3), Op("-"), Num(4)>>,
      <<Num(2), Op("**"), Num(3), Op("**"), Num(2)>>,
      <<Op("("), Num(2), Op("+"), Num(3), Op(")"), Op("*"), Num(4)>>,
      <<Num(8), Op("/"), Num(4), Op("/"), Num(2)>>,
      <<Num(7), Op("%"), Num(4), Op("*"), Num(2)>>,
      <<Num(2), Op("*"), Num(7), Op("%"), Num(4)>>,
      <<Num(2), Op("+"), Num(3), Op("*"), Num(4), Op("**"), Num(2), Op("-"), Num(1)>>,
      <<Name("abs"), Op("("), Op("-"), Num(2), Op(")")>>,
      <<Name("max"), Op("("), Num(1), Op(","), Num(2), Op(")"), Op("*"), Num(2), Op("+"), Num(1)>>,
      <<Name("min"), Op("("), Num(2), Op(","), Num(1), Op(","), Num(3), Op(")")>>,
      <<Name("round"), Op("("), Num(5), Op("/"), Num(2), Op(")")>>,
      <<Name("sum"), Op("("), Num(1), Op(","), Num(2), Op(")")>>,
      <<Name("sum"), Op("("), Op("("), Num(1), Op(","), Num(2), Op(")"), Op(")")>>,
      <<Num(10), Op("**"), Num(12)>>,
      <<Num(10), Op("**"), Num(4299)>>,
      <<Op("-"), Num(10), Op("**"), Num(5000)>>,
      <<Name("x")>>,
      <<Kw("import"), Name("os")>>,
      <<Name("__import__"), Op("("), Str("os"), Op(")")>>,
      <<Num(1), Op("."), Name("x")>>,
      <<Name("abs"), Op("."), Name("__self__")>> }

\* The inputs of a specification are expressions the model represents.
Represented(E) == {e \in E : calculate(e).kind # "na"}

Exprs == Represented(Enumerated \cup Samples)

(***************************************************************************)
(* The tool echo (src/echo_server.py).                                     *)
(***************************************************************************)
\* An echo that would drop the blanks of its text.
EchoUnspaced(text) == SelectSeq(text, LAMBDA c : c # " ")

echo(text) == text

(***************************************************************************)
(* The tool fetch_webpage.  A URL is a sequence of characters.             *)
(***************************************************************************)
\* str.startswith(prefixes)
startswith(s, prefixes) ==
    \E p \in prefixes : Len(s) >= Len(p) /\ SubSeq(s, 1, Len(p)) = p

SchemePrefixes ==
    { <<"h", "t", "t", "p", ":", "/", "/">>,
      <<"h", "t", "t", "p", "s", ":", "/", "/">> }

\* A check that would look at the first four characters only.
HasHttpPrefix(url) == startswith(url, {<<"h", "t", "t", "p">>})

\* `if not url.startswith(('http://', 'https://'))` does not hold.
HasHttpScheme(url) == startswith(url, SchemePrefixes)

SchemeError == <<"Error: URL must start with http:// or https://">>

\* response.text[:10000]
ResponseLimit == 10000
\* A slice that would keep one character more.
TruncateInclusive(text) == SubSeq(text, 1, Min(Len(text), ResponseLimit + 1))
Truncate(text) == SubSeq(text, 1, Min(Len(text), ResponseLimit))

\* What awaiting client.get(url, follow_redirects=True, timeout=10.0) comes
\* to: no answer within the timeout, no connection, a URL the client
\* refuses, or the final response after redirects.
NoResponse == [kind |-> "none", status |-> 0, body |-> <<>>]
Failed(kind) == [kind |-> kind, status |-> 0, body |-> <<>>]
Response(status, body) == [kind |-> "response", status |-> status, body |-> body]

\* The exception class of a failed request; all derive from Exception.
FailureClass(kind) ==
    CASE kind = "timeout" -> "ReadTimeout"
      [] kind = "connect" -> "ConnectError"
      [] kind = "protocol" -> "UnsupportedProtocol"

\* response.raise_for_status(): raises unless the status is 2xx.
IsSuccess(status) == status \in 200..299
\* A raise_for_status() that would let 1xx and 3xx responses pass.
RaisesForError(status) == status >= 400
RaisesForStatus(status) == ~IsSuccess(status)

\* str(e) of a client exception: one symbol, its wording is the client's.
ClientMsg(cls) == <<"str(", cls, ")">>

\* fetch_webpage from the resumption of `await client.get` to its return:
\* the rest of the try block and its except clause.
FetchOutcome(r) ==
    IF r.kind # "response"
    THEN ExceptException("Error fetching page: ",
                         Raise(FailureClass(r.kind), ClientMsg(FailureClass(r.kind))))
    ELSE IF RaisesForStatus(r.status)
    THEN ExceptException("Error fetching page: ",
                         Raise("HTTPStatusError", ClientMsg("HTTPStatusError")))
    ELSE Return(Truncate(r.body))

(***************************************************************************)
(* The resource weather://{city}.  A city is a sequence of symbols.        *)
(***************************************************************************)
weather_cities == {<<"New York">>, <<"London">>, <<"Tokyo">>, <<"Sydney">>}

weather_data(city) ==
    CASE city = <<"New York">> -> <<"72°F, Partly Cloudy">>
      [] city = <<"London">> -> <<"18°C, Rainy">>
      [] city = <<"Tokyo">> -> <<"25°C, Sunny">>
      [] city = <<"Sydney">> -> <<"22°C, Clear">>

conditions == {"Sunny", "Cloudy", "Rainy", "Windy", "Snowy", "Clear"}
\* random.randint(10, 35): both ends included.
TempLow == 10
TempHigh == 35
\* A range that would reach one degree past the upper end.
TemperaturesPast == TempLow..(TempHigh + 1)
Temperatures == TempLow..TempHigh

\* The strings get_weather(city) may return.
get_weather(city) ==
    IF city \in weather_cities
    THEN {<<"Current weather in ">> \o city \o <<": ">> \o weather_data(city)}
    ELSE {<<"Current weather in ">> \o city \o <<": ">> \o NatDigits(temp)
          \o <<"°C, ", cond>> : temp \in Temperatures, cond \in conditions}

(***************************************************************************)
(* The servers.  Each file runs one server process with one event loop:    *)
(* echo_server.py serves echo, remote_mcp_server.py the other handlers.    *)
(* A synchronous handler (def) runs on the loop from its call to its       *)
(* return; an asynchronous one (async def) gives the loop up at an await.  *)
(***************************************************************************)
Servers == {"echo-server", "Remote Demo Server"}
Tools == {"echo", "calculate", "fetch_webpage", "get_weather"}
ServerOf(t) == IF t = "echo" THEN "echo-server" ELSE "Remote Demo Server"
Slots == 1..MaxInv

VARIABLES
    tool,       \* per slot: the capability invoked, "none" for a free slot
    arg,        \* per slot: its argument
    pc,         \* per slot: free, queued, evaluating, awaiting, done, raised, lost
    result,     \* per slot: the string the handler returned
    exc,        \* per slot: the class of the exception that left the handler
    net,        \* per slot: the network operations the handler issued
    resp,       \* per slot: what the awaited request came to
    fate,       \* per slot: what calculate comes to on the slot's expression
    running,    \* per server: the slot whose handler holds the event loop, or 0
    up,         \* per server: whether the process lives
    during      \* per slot (history): a fetch was suspended when the handler ran

vars == <<tool, arg, pc, result, exc, net, resp, fate, running, up, during>>

Init ==
    /\ tool = [i \in Slots |-> "none"]
    /\ arg = [i \in Slots |-> <<>>]
    /\ pc = [i \in Slots |-> "free"]
    /\ result = [i \in Slots |-> <<>>]
    /\ exc = [i \in Slots |-> ""]
    /\ net = [i \in Slots |-> <<>>]
    /\ resp = [i \in Slots |-> NoResponse]
    /\ fate = [i \in Slots |-> Unset]
    /\ running = [s \in Servers |-> 0]
    /\ up = [s \in Servers |-> TRUE]
    /\ during = [i \in Slots |-> FALSE]

\* Some fetch_webpage is suspended at its await.
FetchSuspended == \E j \in Slots : pc[j] = "awaiting"

\* A dispatch that would wait for every suspended handler to finish.
CanDispatchSerial(i) ==
    /\ up[ServerOf(tool[i])]
    /\ running[ServerOf(tool[i])] = 0
    /\ ~FetchSuspended

\* The event loop of the slot's server is free to run its handler.
CanDispatch(i) ==
    /\ up[ServerOf(tool[i])]
    /\ running[ServerOf(tool[i])] = 0

\* A client invokes a capability t with an argument a of domain[t].
\* calculate depends on its expression alone: what it comes to on a is
\* settled with the invocation and takes effect when the handler runs.
Invoke(i, domain) ==
    /\ pc[i] = "free"
    /\ \E t \in Tools :
          /\ up[ServerOf(t)]
          /\ \E a \in domain[t] :
                /\ tool' = [tool EXCEPT ![i] = t]
                /\ arg' = [arg EXCEPT ![i] = a]
                /\ fate' = [fate EXCEPT ![i] =
                               IF t = "calculate" THEN calculate(a) ELSE Unset]
    /\ pc' = [pc EXCEPT ![i] = "queued"]
    /\ UNCHANGED <<result, exc, net, resp, running, up, during>>

\* echo runs to its return.
RunEcho(i) ==
    /\ tool[i] = "echo" /\ pc[i] = "queued"
    /\ CanDispatch(i)
    /\ result' = [result EXCEPT ![i] = echo(arg[i])]
    /\ pc' = [pc EXCEPT ![i] = "done"]
    /\ during' = [during EXCEPT ![i] = FetchSuspended]
    /\ UNCHANGED <<fate, tool, arg, exc, net, resp, running, up>>

\* calculate is called on the event loop and holds it while eval() runs.
StartCalculate(i) ==
    /\ tool[i] = "calculate" /\ pc[i] = "queued"
    /\ CanDispatch(i)
    /\ running' = [running EXCEPT ![ServerOf(tool[i])] = i]
    /\ pc' = [pc EXCEPT ![i] = "evaluating"]
    /\ UNCHANGED <<fate, tool, arg, result, exc, net, resp, up, during>>

\* calculate comes to its end; an evaluation that never returns has none.
FinishCalculate(i) ==
    LET s == ServerOf(tool[i])
        Ends(out) ==
            /\ out.kind \in {"return", "raise", "kill"}
            /\ running' = [running EXCEPT ![s] = 0]
            /\ result' = [result EXCEPT ![i] = out.text]
            /\ exc' = [exc EXCEPT ![i] = out.cls]
            /\ up' = [up EXCEPT ![s] = out.kind # "kill"]
            /\ pc' = IF out.kind = "kill"
                     THEN [j \in Slots |->
                             IF ServerOf(tool[j]) = s
                                /\ pc[j] \in {"queued", "evaluating", "awaiting"}
                             THEN "lost" ELSE pc[j]]
                     ELSE [pc EXCEPT ![i] =
                             IF out.kind = "return" THEN "done" ELSE "raised"]
    IN  /\ tool[i] = "calculate" /\ pc[i] = "evaluating"
        /\ Ends(fate[i])
        /\ UNCHANGED <<fate, tool, arg, net, resp, during>>

\* fetch_webpage up to its first await.  ctx.info(...) is not awaited: it
\* makes a coroutine that never runs.  Then the scheme check; then the
\* client is made and the GET is issued.
FetchStart(i) ==
    /\ tool[i] = "fetch_webpage" /\ pc[i] = "queued"
    /\ CanDispatch(i)
    /\ IF ~HasHttpScheme(arg[i])
       THEN /\ result' = [result EXCEPT ![i] = SchemeError]
            /\ pc' = [pc EXCEPT ![i] = "done"]
            /\ net' = net
       ELSE /\ net' = [net EXCEPT ![i] = <<"AsyncClient", "GET">>]
            /\ pc' = [pc EXCEPT ![i] = "awaiting"]
            /\ result' = result
    /\ UNCHANGED <<fate, tool, arg, exc, resp, running, up, during>>

\* The awaited request comes to r and fetch_webpage runs to its return.
FetchResume(i, r) ==
    LET out == FetchOutcome(r)
    IN  /\ tool[i] = "fetch_webpage" /\ pc[i] = "awaiting"
        /\ CanDispatch(i)
        /\ resp' = [resp EXCEPT ![i] = r]
        /\ result' = [result EXCEPT ![i] = out.text]
        /\ exc' = [exc EXCEPT ![i] = out.cls]
        /\ pc' = [pc EXCEPT ![i] = IF out.kind = "return" THEN "done" ELSE "raised"]
        /\ UNCHANGED <<fate, tool, arg, net, running, up, during>>

\* get_weather has no await: it runs to its return.
ReadWeather(i) ==
    /\ tool[i] = "get_weather" /\ pc[i] = "queued"
    /\ CanDispatch(i)
    /\ \E text \in get_weather(arg[i]) : result' = [result EXCEPT ![i] = text]
    /\ pc' = [pc EXCEPT ![i] = "done"]
    /\ UNCHANGED <<fate, tool, arg, exc, net, resp, running, up, during>>

\* The outcome of a finished invocation is delivered; the slot is free again.
Collect(i) ==
    /\ pc[i] \in {"done", "raised", "lost"}
    /\ tool' = [tool EXCEPT ![i] = "none"]
    /\ arg' = [arg EXCEPT ![i] = <<>>]
    /\ pc' = [pc EXCEPT ![i] = "free"]
    /\ result' = [result EXCEPT ![i] = <<>>]
    /\ exc' = [exc EXCEPT ![i] = ""]
    /\ net' = [net EXCEPT ![i] = <<>>]
    /\ resp' = [resp EXCEPT ![i] = NoResponse]
    /\ fate' = [fate EXCEPT ![i] = Unset]
    /\ during' = [during EXCEPT ![i] = FALSE]
    /\ UNCHANGED <<running, up>>

(***************************************************************************)
(* Inputs.                                                                 *)
(***************************************************************************)
FtpUrl == <<"f", "t", "p", ":", "/", "/", "x">>
HttpUrl == <<"h", "t", "t", "p", ":", "/", "/", "a">>
HttpsUrl == <<"h", "t", "t", "p", "s", ":", "/", "/", "a">>

Urls ==
    { FtpUrl, HttpUrl, HttpsUrl, <<>>,
      <<"h", "t", "t", "p">>,
      <<"h", "t", "t", "p", ":", "/", "a">>,
      <<"h", "t", "t", "p", "s", ":", "/", "a">>,
      <<"h", "t", "t", "p", "x", ":", "/", "/", "a">>,
      <<"H", "T", "T", "P", ":", "/", "/", "a">>,
      <<" ", "h", "t", "t", "p", ":", "/", "/", "a">>,
      <<"h", "t", "t", "p", ":", "/", "/">>,
      <<"f", "i", "l", "e", ":", "/", "/", "/", "e", "t", "c">> }

\* A body of n characters.
Body(n) == [k \in 1..n |-> DigitSyms[(k % 10) + 1]]
BodyLengths == {0, 1, 2} \cup (ResponseLimit - 1)..(ResponseLimit + MaxExtra)

Statuses == {200, 204, 301, 304, 404, 500}

Responses ==
    {Failed(k) : k \in {"timeout", "connect", "protocol"}}
    \cup {Response(st, Body(n)) : st \in Statuses, n \in BodyLengths}

Cities == weather_cities \cup {<<"Nowhere">>, <<"london">>, <<>>}

Texts == {<<>>, <<"h", "i">>, <<" ", "h", "i", " ">>, <<"Error: ">>}

\* The arguments a client passes to capability t.
Args(t) ==
    CASE t = "echo" -> Texts
      [] t = "calculate" -> Exprs
      [] t = "fetch_webpage" -> Urls
      [] t = "get_weather" -> Cities

\* One invocation at a time, over all inputs.
HandlerNext ==
    \/ Invoke(1, [t \in Tools |-> Args(t)])
    \/ RunEcho(1)
    \/ StartCalculate(1)
    \/ FinishCalculate(1)
    \/ FetchStart(1)
    \/ \E r \in Responses : FetchResume(1, r)
    \/ ReadWeather(1)
    \/ Collect(1)

HandlerSpec == Init /\ [][HandlerNext]_vars

\* Concurrent invocations, over a few inputs of each capability.
ConcurrentExprs == {Precedence, DivisionByZero, BuiltinsExit, OsExit, EndlessSum}

ConcurrentArgs(t) ==
    CASE t = "echo" -> Texts
      [] t = "calculate" -> ConcurrentExprs
      [] t = "fetch_webpage" -> {FtpUrl, HttpUrl}
      [] t = "get_weather" -> {<<"London">>}

ConcurrentResponses == {Failed("timeout"), Response(404, Body(1)), Response(200, Body(1))}

\* The steps of slot i's handler.
Step(i) ==
    \/ RunEcho(i)
    \/ StartCalculate(i)
    \/ FinishCalculate(i)
    \/ FetchStart(i)
    \/ \E r \in ConcurrentResponses : FetchResume(i, r)
    \/ ReadWeather(i)

Next ==
    \E i \in Slots :
        \/ Invoke(i, [t \in Tools |-> ConcurrentArgs(t)])
        \/ Step(i)
        \/ Collect(i)

Spec == Init /\ [][Next]_vars

\* An event loop runs every handler that is ready again and again, and the
\* 10 second timeout ends every wait for a response.
FairSpec == Spec /\ \A i \in Slots : SF_vars(Step(i))

(***************************************************************************)
(* The allowed arithmetic grammar and the value standard precedence gives  *)
(* an expression of it, found without the parser: an expression splits at  *)
(* its loosest operator outside parentheses.                               *)
(*   loosest   binary + and -, grouping to the left                        *)
(*   then      * / %, grouping to the left                                 *)
(*   then      the signs + and -                                           *)
(*   tightest  **, grouping to the right, a sign allowed on its right      *)
(* A reading is [g, r]: g says the tokens are an expression of the         *)
(* grammar, r is the outcome of its evaluation.                            *)
(***************************************************************************)
Outside == [g |-> FALSE, r |-> NA]
Inside(r) == [g |-> TRUE, r |-> r]

\* The parentheses open at token k of s.
Depth(s, k) ==
    Cardinality({j \in 1..(k - 1) : IsOp(s[j], "(")})
    - Cardinality({j \in 1..(k - 1) : IsOp(s[j], ")")})

\* Token k of s ends an operand, so that an operator after it is binary.
EndsOperand(s, k) == k >= 1 /\ (s[k].k = "num" \/ IsOp(s[k], ")"))

\* The binary operators of ops in s that no parenthesis encloses.
Splits(s, ops) ==
    {k \in 1..Len(s) : IsOpIn(s[k], ops) /\ Depth(s, k) = 0 /\ EndsOperand(s, k - 1)}

SetMax(S) == CHOOSE k \in S : \A j \in S : j <= k
SetMin(S) == CHOOSE k \in S : \A j \in S : k <= j

\* The parenthesis that opens at token 1 of s closes at its last token.
Enclosed(s) ==
    /\ Len(s) >= 2
    /\ IsOp(s[1], "(") /\ IsOp(s[Len(s)], ")")
    /\ \A k \in 2..Len(s) : Depth(s, k) >= 1
    /\ Depth(s, Len(s)) = 1

\* Both operands are read, the left one first.
Both(op, l, r) ==
    IF ~(l.g /\ r.g) THEN Outside
    ELSE IF l.r.o # "val" THEN Inside(l.r)
    ELSE IF r.r.o # "val" THEN Inside(r.r)
    ELSE Inside(BinOp(op, l.r.v, r.r.v))

Signed(op, x) ==
    IF ~x.g THEN Outside
    ELSE IF x.r.o # "val" THEN Inside(x.r)
    ELSE Inside(UnaryOp(op, x.r.v))

RECURSIVE Reading(_), ReadArgs(_, _)

\* The arguments of a call, s the tokens between its parentheses; acc
\* holds the values of the arguments already read.
ReadArgs(s, acc) ==
    LET commas == {k \in 1..Len(s) : IsOp(s[k], ",") /\ Depth(s, k) = 0}
        first == IF commas = {} THEN Len(s) + 1 ELSE SetMin(commas)
        Next1(a) ==
            IF ~a.g THEN Outside
            ELSE IF a.r.o # "val" THEN Inside(a.r)
            ELSE IF commas = {} THEN Inside(Val(Append(acc, a.r.v)))
            ELSE ReadArgs(SubSeq(s, first + 1, Len(s)), Append(acc, a.r.v))
    IN  Next1(Reading(SubSeq(s, 1, first - 1)))

Reading(s) ==
    LET n == Len(s)
        sums == Splits(s, {"+", "-"})
        products == Splits(s, {"*", "/", "%"})
        powers == Splits(s, {"**"})
        At(k) == Both(s[k].s, Reading(SubSeq(s, 1, k - 1)), Reading(SubSeq(s, k + 1, n)))
        Called(a) ==
            IF ~a.g THEN Outside
            ELSE IF a.r.o # "val" THEN Inside(a.r)
            ELSE Inside(CallPlain(MkBuiltin(s[1].s), a.r.v))
    IN  IF n = 0 THEN Outside
        ELSE IF sums # {} THEN At(SetMax(sums))
        ELSE IF products # {} THEN At(SetMax(products))
        ELSE IF IsOpIn(s[1], {"+", "-"}) THEN Signed(s[1].s, Reading(Tail(s)))
        ELSE IF powers # {} THEN At(SetMin(powers))
        ELSE IF n = 1 /\ s[1].k = "num" THEN Inside(Val(PyInt(s[1].n)))
        ELSE IF Enclosed(s) THEN Reading(SubSeq(s, 2, n - 1))
        ELSE IF s[1].k = "name" /\ s[1].s \in {"abs", "max", "min", "round", "sum"}
                /\ n >= 3 /\ Enclosed(Tail(s))
        THEN IF n = 3 THEN Called(Inside(Val(<<>>)))
             ELSE Called(ReadArgs(SubSeq(s, 3, n - 1), <<>>))
        ELSE Outside

(***************************************************************************)
(* Properties of calculate.                                                *)
(***************************************************************************)
Finished(i) == pc[i] \in {"done", "raised"}
IsErrorResult(text) == Len(text) >= 1 /\ text[1] = "Error: "

\* The tokens of the closed grammar: numbers, the arithmetic operators,
\* parentheses, and the five function names with the comma of their calls.
InClosedGrammar(t) ==
    \/ t.k = "num"
    \/ IsOpIn(t, {"+", "-", "*", "/", "%", "**", "(", ")", ","})
    \/ (t.k = "name" /\ t.s \in {"abs", "max", "min", "round", "sum"})
HasOutsideToken(e) == \E k \in 1..Len(e) : ~InClosedGrammar(e[k])

\* C1: every calculate invocation whose expression holds a token outside
\* the closed grammar (an identifier that is not whitelisted, an attribute
\* access, a string, a statement keyword) ends by returning an Error result,
\* the expression giving no value.
C1_OutsideTokenRejected ==
    \A i \in Slots :
        (/\ tool[i] = "calculate" /\ HasOutsideToken(arg[i])
         /\ pc[i] \in {"done", "raised", "lost"})
        => (pc[i] = "done" /\ IsErrorResult(result[i]))

\* C2: no exception leaves calculate: every finished invocation returned a
\* string, and 1/0 returned the Error string of the division by zero.
C2_NoExceptionEscapes ==
    \A i \in Slots :
        tool[i] = "calculate"
        => /\ pc[i] # "raised"
           /\ (Finished(i) /\ arg[i] = DivisionByZero)
                => result[i] = <<"Error: ", "division by zero">>

\* C8: every finished calculate invocation on an expression of the allowed
\* arithmetic grammar whose evaluation gives a value returned the string
\* form of the value standard precedence gives it; 2 + 3 * 4 returned 14.
C8_StringOfValue ==
    \A i \in Slots :
        LET rd == Reading(arg[i])
        IN  (/\ tool[i] = "calculate" /\ Finished(i)
             /\ rd.g /\ rd.r.o = "val")
            => /\ pc[i] = "done"
               /\ result[i] = Text(rd.r.v)
               /\ (arg[i] = Precedence => result[i] = <<"1", "4">>)

(***************************************************************************)
(* Properties of fetch_webpage.                                            *)
(***************************************************************************)
StartsWith(u, p) == Len(u) >= Len(p) /\ \A k \in 1..Len(p) : u[k] = p[k]
IsHttpUrl(u) ==
    \/ StartsWith(u, <<"h", "t", "t", "p", ":", "/", "/">>)
    \/ StartsWith(u, <<"h", "t", "t", "p", "s", ":", "/", "/">>)

\* C3: a fetch_webpage invocation whose url starts neither with http://
\* nor with https:// issues no network operation at any time, and ends by
\* returning "Error: URL must start with http:// or https://".
C3_SchemeCheckFirst ==
    \A i \in Slots :
        (tool[i] = "fetch_webpage" /\ ~IsHttpUrl(arg[i]))
        => /\ net[i] = <<>>
           /\ pc[i] \in {"queued", "done", "lost"}
           /\ pc[i] = "done"
                => result[i] = <<"Error: URL must start with http:// or https://">>

C3_FtpRejected ==
    \E i \in Slots :
        /\ tool[i] = "fetch_webpage" /\ arg[i] = FtpUrl /\ pc[i] = "done"
        /\ result[i] = <<"Error: URL must start with http:// or https://">>
        /\ net[i] = <<>>

\* The request came to no successful response.
RequestFailed(r) ==
    \/ r.kind \in {"timeout", "connect", "protocol"}
    \/ (r.kind = "response" /\ r.status \notin 200..299)

\* C6: a fetch_webpage invocation whose request failed (timeout, no
\* connection, or a status that is not a success) ends by returning a
\* string that starts with "Error fetching page: "; no exception leaves it.
C6_FailureIsErrorString ==
    \A i \in Slots :
        (tool[i] = "fetch_webpage" /\ Finished(i) /\ RequestFailed(resp[i]))
        => /\ pc[i] = "done"
           /\ Len(result[i]) >= 1
           /\ result[i][1] = "Error fetching page: "

C6_NotFoundReported ==
    \E i \in Slots :
        /\ tool[i] = "fetch_webpage" /\ pc[i] = "done"
        /\ resp[i].kind = "response" /\ resp[i].status = 404
        /\ result[i] = <<"Error fetching page: ", "str(", "HTTPStatusError", ")">>

\* C7: a fetch_webpage invocation that succeeded returned the first
\* min(len(body), 10000) characters of the body, so at most 10000.
C7_FirstTenThousand ==
    \A i \in Slots :
        (/\ tool[i] = "fetch_webpage" /\ pc[i] = "done"
         /\ resp[i].kind = "response" /\ resp[i].status \in 200..299)
        => LET body == resp[i].body
               n == IF Len(body) < 10000 THEN Len(body) ELSE 10000
           IN  /\ Len(result[i]) = n
               /\ Len(result[i]) <= 10000
               /\ \A k \in 1..n : result[i][k] = body[k]

C7_LongBodyCut ==
    \E i \in Slots :
        /\ tool[i] = "fetch_webpage" /\ pc[i] = "done"
        /\ resp[i].kind = "response" /\ resp[i].status = 200
        /\ Len(resp[i].body) > 10000
        /\ Len(result[i]) = 10000

(***************************************************************************)
(* Properties of the dispatch of concurrent invocations.                   *)
(***************************************************************************)
\* C4: while a fetch_webpage invocation is suspended at its await, an echo
\* invocation that waits to run can run at once, and its run returns its
\* text while the fetch stays suspended.
C4_EchoNotBlockedByFetch ==
    \A i, j \in Slots :
        (tool[i] = "fetch_webpage" /\ pc[i] = "awaiting" /\ tool[j] = "echo")
        => /\ pc[j] = "queued" => ENABLED RunEcho(j)
           /\ (pc[j] = "done" /\ during[j]) => result[j] = arg[j]

C4_EchoDoneDuringFetch ==
    \E i, j \in Slots :
        /\ tool[i] = "fetch_webpage" /\ pc[i] = "awaiting"
        /\ tool[j] = "echo" /\ pc[j] = "done" /\ during[j]
        /\ result[j] = <<"h", "i">>

\* C5: no invocation ends a server, and every invocation of a handler that
\* can end, once it waits to run, is run to its end, whatever the other
\* invocations do.
C5_NoInvocationBlocksOthers ==
    /\ [](\A s \in Servers : up[s])
    /\ \A j \in Slots :
          (pc[j] = "queued" /\ tool[j] \in {"echo", "fetch_webpage", "get_weather"})
          ~> Finished(j)

(***************************************************************************)
(* Properties of weather://{city}.                                         *)
(***************************************************************************)
\* C9: a read of weather://{city} returns, for each of the four hardcoded
\* cities, "Current weather in <city>: " and its canned reading, and for
\* every other city "Current weather in <city>: <t>°C, <condition>" with t
\* an integer of 10..35 and the condition one of six.
C9_WeatherReading ==
    \A i \in Slots :
        (tool[i] = "get_weather" /\ pc[i] = "done")
        => LET city == arg[i]
               Canned(reading) ==
                   result[i] = <<"Current weather in ">> \o city \o <<": ", reading>>
           IN  CASE city = <<"New York">> ->
                        /\ Canned("72°F, Partly Cloudy")
                        /\ result[i] = <<"Current weather in ", "New York", ": ",
                                         "72°F, Partly Cloudy">>
                 [] city = <<"London">> -> Canned("18°C, Rainy")
                 [] city = <<"Tokyo">> -> Canned("25°C, Sunny")
                 [] city = <<"Sydney">> -> Canned("22°C, Clear")
                 [] OTHER ->
                        \E t \in 10..35 :
                        \E c \in {"Sunny", "Cloudy", "Rainy", "Windy", "Snowy", "Clear"} :
                            result[i] = <<"Current weather in ">> \o city
                                        \o <<": ", DigitSyms[(t \div 10) + 1],
                                             DigitSyms[(t % 10) + 1], "°C, ", c>>

C9_WarmestSynthetic ==
    \E i \in Slots :
        /\ tool[i] = "get_weather" /\ pc[i] = "done"
        /\ arg[i] = <<"Nowhere">>
        /\ result[i] = <<"Current weather in ", "Nowhere", ": ", "3", "5", "°C, ", "Snowy">>

(***************************************************************************)
(* Properties of echo.                                                     *)
(***************************************************************************)
\* C10: echo returns its text unchanged whatever invocations came before
\* it, so that two echo invocations of one text have one result.
C10_EchoUnchanged ==
    /\ \A i \in Slots :
          (tool[i] = "echo" /\ pc[i] = "done") => result[i] = arg[i]
    /\ \A i, j \in Slots :
          (/\ tool[i] = "echo" /\ pc[i] = "done"
           /\ tool[j] = "echo" /\ pc[j] = "done"
           /\ arg[i] = arg[j])
          => result[i] = result[j]

\* Two echo invocations of one text have returned it after another
\* invocation ended the other server.
C10_EchoTwiceAfterOthers ==
    \E i, j \in Slots :
        /\ i # j
        /\ tool[i] = "echo" /\ pc[i] = "done"
        /\ tool[j] = "echo" /\ pc[j] = "done"
        /\ arg[i] = <<" ", "h", "i", " ">> /\ arg[j] = arg[i]
        /\ result[i] = <<" ", "h", "i", " ">> /\ result[j] = result[i]
        /\ ~up["Remote Demo Server"]

=============================================================================
